---- MODULE Spec2Model ----
(***************************************************************************)
(* A model of ProcessSessionManager (src/server/ProcessSessionManager.ts): *)
(* the registry of managed child processes, the operations on it, the      *)
(* handlers it installs on each child process, and the output buffer.      *)
(*                                                                         *)
(* Objects.  Every createSession that gets as far as line 119 allocates    *)
(* one ManagedProcess object and one ChildProcess; recs[r] is the r-th     *)
(* such object (with its ChildProcess in the field process).  Objects live *)
(* on after they leave the registry: the handlers of lines 131-157 keep a  *)
(* reference to them.  randomUUID is modelled as returning the number r of *)
(* the object being built, so ids are fresh and the const id the handlers  *)
(* close over is r (ClosureId).                                            *)
(*                                                                         *)
(* Text is a sequence of character codes (NL is the line feed).            *)
(***************************************************************************)
EXTENDS Integers, Sequences, FiniteSets, TLC

\* ------------------------------------------------------------------ bounds
MAX_OUTPUT_BUFFER_LINES == 500
MaxProcs == 2
MaxChunks == 1
MaxClock == 1
MaxInflight == 1

\* --------------------------------------------------------------- constants
NL == 10
STDERR_TAG == <<91, 115, 116, 100, 101, 114, 114, 93, 32>>   \* "[stderr] "
NULL == <<>>                  \* null / undefined of an optional value
Some(v) == <<v>>
NonExistent == 0              \* an id no createSession ever mints
Ids == 0..MaxProcs
Statuses == {"idle", "working", "waiting", "offline"}
ExitCodes == {NULL, Some(0)}
SpawnFailedCode == Some(-2)   \* exitCode after a failed spawn: the negative errno
ExternalIds == {"e1", "e2"}
LinkInputs == {"e1"}

VARIABLES
    isWindows,       \* IS_WINDOWS of the platform module
    errorListener,   \* whether a subscriber listens for 'error' on the manager
    sessions,        \* this.sessions: the Map, as its entries in insertion order
    recs,            \* the ManagedProcess objects ever built
    sessionCounter,  \* this.sessionCounter
    now,             \* Date.now()
    microtasks,      \* the suspended restart() and cleanup() calls, next to resume first
    hist,            \* history: every entry ever pushed to recs[r].outputBuffer
    chunks,          \* history: number of data chunks delivered
    crashed,         \* an exception left an event callback uncaught
    hook             \* vibecraft-hook.ps1: its files, its runs so far and the last run

vars == <<isWindows, errorListener, sessions, recs, sessionCounter, now,
          microtasks, hist, chunks, crashed, hook>>

\* ------------------------------------------------------------ the Map
MapKeys(m) == {m[i].key : i \in 1..Len(m)}
MapHas(m, k) == k \in MapKeys(m)
MapIndex(m, k) == CHOOSE i \in 1..Len(m) : m[i].key = k
MapGet(m, k) == m[MapIndex(m, k)].ref
MapValues(m) == [i \in 1..Len(m) |-> m[i].ref]
MapDelete(m, k) == SelectSeq(m, LAMBDA e : e.key # k)
MapSet(m, k, r) ==
    IF MapHas(m, k)
    THEN [m EXCEPT ![MapIndex(m, k)].ref = r]
    ELSE Append(m, [key |-> k, ref |-> r])

\* ------------------------------------------------------------ queries
getSessions == MapValues(sessions)
getSession(id) == IF MapHas(sessions, id) THEN Some(MapGet(sessions, id)) ELSE NULL

\* What both queries hand out is the object held in the Map, not a copy of it (lines
\* 66 and 73): the objects after a caller assigned to a field of the object ref it
\* was handed.
CallerSetsStatus(ref, status) == [recs EXCEPT ![ref].status = status]
CallerSetsBuffer(ref, buf) == [recs EXCEPT ![ref].outputBuffer = buf]
CallerSetsId(ref, id) == [recs EXCEPT ![ref].id = id]

\* --------------------------------------------------------- notifications
Notify(type, id, status, code, data) ==
    [type |-> type, id |-> id, status |-> status, code |-> code, data |-> data]
StatusChange(id, status) == Notify("statusChange", id, status, NULL, <<>>)
OutputEvent(id, text) == Notify("output", id, "", NULL, text)
ExitEvent(id, code) == Notify("exit", id, "", code, <<>>)
ErrorEvent(id) == Notify("error", id, "", NULL, <<>>)

\* ------------------------------------------------------------ text
RECURSIVE Split(_)
\* text.split('\n'): the pieces between line feeds; k line feeds give k+1 pieces.
\* Computed by halves: the last piece of the left half and the first piece of the
\* right half are one piece of the whole.
Split(text) ==
    IF Len(text) = 0 THEN <<<<>>>>
    ELSE IF Len(text) = 1 THEN (IF text[1] = NL THEN <<<<>>, <<>>>> ELSE <<text>>)
    ELSE LET mid == Len(text) \div 2
             left == Split(SubSeq(text, 1, mid))
             right == Split(SubSeq(text, mid + 1, Len(text)))
         IN  SubSeq(left, 1, Len(left) - 1)
             \o <<left[Len(left)] \o Head(right)>>
             \o Tail(right)

\* array.slice(-n) for n >= 1: the last n elements, all of them when n >= length
SliceLast(s, n) == IF Len(s) <= n THEN s ELSE SubSeq(s, Len(s) - n + 1, Len(s))

\* faulty variant: the trim keeps one entry too many
TrimBufferOffByOne(buf) == SliceLast(buf, MAX_OUTPUT_BUFFER_LINES + 1)

\* faulty variant: the trim keeps the oldest entries
TrimBufferKeepOldest(buf) == SubSeq(buf, 1, MAX_OUTPUT_BUFFER_LINES)

\* array.slice(-MAX): the buffer dropped to its newest MAX entries
TrimBuffer(buf) == SliceLast(buf, MAX_OUTPUT_BUFFER_LINES)

\* faulty variant: the new lines are put in front of the buffer
appendOutputInFront(buf, text) == SliceLast(Split(text) \o buf, MAX_OUTPUT_BUFFER_LINES)

\* faulty variant: the chunk is pushed as one entry, unsplit
appendOutputUnsplit(buf, text) == SliceLast(Append(buf, text), MAX_OUTPUT_BUFFER_LINES)

\* appendOutput(session, text): the buffer after the push and the trim
appendOutput(buf, text) ==
    LET pushed == buf \o Split(text)
    IN  IF Len(pushed) > MAX_OUTPUT_BUFFER_LINES THEN TrimBuffer(pushed) ELSE pushed

\* ------------------------------------------------------- createSession
Unset == "unset"
FlagValues == {Unset, "true", "false"}
DefaultFlags == [continue |-> Unset, skipPermissions |-> Unset, chrome |-> Unset]

\* faulty variant: --chrome is pushed whenever the flag is not false
BuildArgsChromeByDefault(flags) ==
    (IF flags.continue # "false" THEN <<"-c">> ELSE <<>>)
    \o (IF flags.skipPermissions # "false"
        THEN <<"--permission-mode=bypassPermissions", "--dangerously-skip-permissions">>
        ELSE <<>>)
    \o (IF flags.chrome # "false" THEN <<"--chrome">> ELSE <<>>)

\* lines 85-99: the argument list built from the flags
BuildArgs(flags) ==
    (IF flags.continue # "false" THEN <<"-c">> ELSE <<>>)
    \o (IF flags.skipPermissions # "false"
        THEN <<"--permission-mode=bypassPermissions", "--dangerously-skip-permissions">>
        ELSE <<>>)
    \o (IF flags.chrome = "true" THEN <<"--chrome">> ELSE <<>>)

\* line 82: options.name || `Claude ${this.sessionCounter}`
SessionName(nameOpt, counter) ==
    IF nameOpt # NULL THEN nameOpt[1] ELSE [text |-> "Claude ", num |-> counter]

\* line 83: options.cwd || process.cwd()
SessionCwd(cwdOpt) == IF cwdOpt # NULL THEN cwdOpt[1] ELSE "process.cwd"

\* What findClaudePath and spawn can do (lines 102-117):
\*   notfound    findClaudePath returns null, createSession throws (line 104)
\*   spawnthrow  spawn throws synchronously
\*   spawnerror  spawn returns a ChildProcess that never ran; its 'error' event is queued
\*   ok          the process runs
LaunchOutcomes == {"notfound", "spawnthrow", "spawnerror", "ok"}
LaunchThrows(o) == o \in {"notfound", "spawnthrow"}

\* lines 108-117: the ChildProcess spawn returns.  alive: the process has not exited.
NewProcess(args, o) ==
    [alive |-> o = "ok", pendingError |-> o = "spawnerror", killed |-> FALSE,
     exitCode |-> NULL, args |-> args]

\* line 123: the status a record is built with
InitialStatus == "idle"

\* lines 119-128: the ManagedProcess object
NewSession(id, name, cwd, proc) ==
    [id |-> id, name |-> name, process |-> proc, status |-> InitialStatus, cwd |-> cwd,
     createdAt |-> now, lastActivity |-> now, outputBuffer |-> <<>>,
     claudeSessionId |-> NULL]

\* line 81: randomUUID(), a value no earlier call returned
randomUUID == Len(recs) + 1

\* the const id of line 81 that the handlers of object r close over
ClosureId(r) == r

\* faulty variant: the record is never put into the Map
RegisterNothing(m, id, r) == m

\* line 159: this.sessions.set(id, session)
Register(m, id, r) == MapSet(m, id, r)

\* createSession (lines 79-163) with launch outcome o
CreateSessionBody(nameOpt, cwdOpt, flags, o) ==
    /\ sessionCounter' = sessionCounter + 1
    /\ IF LaunchThrows(o)
       THEN UNCHANGED <<recs, sessions, hist>>
       ELSE LET id == randomUUID
                session == NewSession(id, SessionName(nameOpt, sessionCounter + 1),
                                      SessionCwd(cwdOpt), NewProcess(BuildArgs(flags), o))
            IN  /\ recs' = Append(recs, session)
                /\ hist' = Append(hist, <<>>)
                /\ sessions' = Register(sessions, id, Len(recs) + 1)

\* what createSession gives its caller: the record, or the error it rejects with
createSessionReturns(o) == IF LaunchThrows(o) THEN "throw" ELSE "session"

CanCreate == sessionCounter < MaxProcs

CreateSession(options, o) ==
    /\ ~crashed /\ CanCreate
    /\ CreateSessionBody(options.name, options.cwd, options.flags, o)
    /\ UNCHANGED <<isWindows, errorListener, now, microtasks, chunks, crashed, hook>>

\* ------------------------------------------------------ process events
\* Process events are tasks of the event loop: they wait until no continuation of an
\* async call is left in the microtask queue.
NoMicrotask == microtasks = <<>>

\* line 135
StdoutEmits(r, text) == <<OutputEvent(ClosureId(r), text)>>

\* lines 131-136: a chunk arrives on stdout of object r
StdoutData(r, text) ==
    /\ ~crashed /\ NoMicrotask /\ recs[r].process.alive
    /\ recs' = [recs EXCEPT ![r].outputBuffer = appendOutput(@, text),
                            ![r].lastActivity = now]
    /\ hist' = [hist EXCEPT ![r] = @ \o Split(text)]
    /\ chunks' = chunks + 1
    /\ UNCHANGED <<isWindows, errorListener, sessions, sessionCounter, now, microtasks,
                   crashed, hook>>

\* lines 139-143: the stderr handler emits nothing
StderrEmits(r, text) == <<>>

\* lines 139-143: a chunk arrives on stderr of object r
StderrData(r, text) ==
    /\ ~crashed /\ NoMicrotask /\ recs[r].process.alive
    /\ recs' = [recs EXCEPT ![r].outputBuffer = appendOutput(@, STDERR_TAG \o text),
                            ![r].lastActivity = now]
    /\ hist' = [hist EXCEPT ![r] = @ \o Split(STDERR_TAG \o text)]
    /\ chunks' = chunks + 1
    /\ UNCHANGED <<isWindows, errorListener, sessions, sessionCounter, now, microtasks,
                   crashed, hook>>

\* lines 146-150: the 'exit' handler of object r
ExitHandlerRecs(r) == [recs EXCEPT ![r].status = "offline"]
ExitHandlerEmits(r, code) ==
    <<ExitEvent(ClosureId(r), code), StatusChange(ClosureId(r), "offline")>>

\* the process of object r exits with code (null when a signal ended it): the
\* ChildProcess records the code and emits 'exit'
ProcExit(r, code) ==
    /\ ~crashed /\ NoMicrotask /\ recs[r].process.alive
    /\ recs' = [ExitHandlerRecs(r) EXCEPT ![r].process.alive = FALSE,
                                          ![r].process.exitCode = code]
    /\ UNCHANGED <<isWindows, errorListener, sessions, sessionCounter, now, microtasks,
                   hist, chunks, crashed, hook>>

\* lines 153-157: the 'error' handler of object r.  EventEmitter.emit('error') with
\* no listener throws, so line 156 is not reached.
ErrorHandlerRecs(r) == [recs EXCEPT ![r].status = "offline"]
ErrorHandlerEmits(r) ==
    IF errorListener
    THEN <<ErrorEvent(ClosureId(r)), StatusChange(ClosureId(r), "offline")>>
    ELSE <<>>
ErrorHandlerThrows == ~errorListener

\* the queued 'error' event of a failed spawn is delivered; the ChildProcess has
\* recorded the errno as its exitCode
ProcError(r) ==
    /\ ~crashed /\ NoMicrotask /\ recs[r].process.pendingError
    /\ recs' = [ErrorHandlerRecs(r) EXCEPT ![r].process.pendingError = FALSE,
                                           ![r].process.exitCode = SpawnFailedCode]
    /\ crashed' = ErrorHandlerThrows
    /\ UNCHANGED hook
    /\ UNCHANGED <<isWindows, errorListener, sessions, sessionCounter, now, microtasks,
                   hist, chunks>>

\* Date.now() advances
Tick ==
    /\ ~crashed /\ now < MaxClock
    /\ now' = now + 1
    /\ UNCHANGED <<isWindows, errorListener, sessions, recs, sessionCounter,
                   microtasks, hist, chunks, crashed, hook>>

\* ------------------------------------------------------------ frames
\* A suspended async call.  restart: pc "create" waits after line 322, pc "rename"
\* after line 328; existing and session are the objects of lines 316 and 325.
\* cleanup: pos is how many entries of the Map its iterator (line 342) has passed;
\* snapshot (history) is the set of keys the Map had when cleanup was called, and
\* attempted (history) the objects this cleanup has called kill for.
RestartFrame(pc, id, existing, session) ==
    [kind |-> "restart", pc |-> pc, id |-> id, existing |-> existing,
     session |-> session, pos |-> 0, snapshot |-> {}, attempted |-> {}]
CleanupFrame(pos, snapshot, attempted) ==
    [kind |-> "cleanup", pc |-> "loop", id |-> NonExistent, existing |-> 0,
     session |-> 0, pos |-> pos, snapshot |-> snapshot, attempted |-> attempted]

\* the Map iterators after key k left Map m: an entry they had passed no longer counts
IterAfterDelete(frames, m, k) ==
    [i \in 1..Len(frames) |->
        IF frames[i].kind = "cleanup" /\ MapHas(m, k) /\ MapIndex(m, k) <= frames[i].pos
        THEN [frames[i] EXCEPT !.pos = @ - 1]
        ELSE frames[i]]

\* ------------------------------------------------------------ kill
\* What a call can meet.  absent: the id is not in the Map.  Else, of
\* process.kill(signal) on a ChildProcess:
\*   sent   the signal was delivered; killed becomes true
\*   esrch  no such process, or the handle is gone: returns false
\*   eperm  any other error: the ChildProcess emits 'error', synchronously
\*   throw  the platform does not know the signal: process.kill throws
\* and of execSync('taskkill ...'): done, or failed (it throws; line 227 catches it)
SignalOutcomes(r) ==
    IF recs[r].process.alive THEN {"sent", "esrch", "eperm", "throw"} ELSE {"esrch"}
TaskkillOutcomes(r) == IF recs[r].process.alive THEN {"done", "failed"} ELSE {"failed"}
TermOutcomes(r) == IF isWindows THEN TaskkillOutcomes(r) ELSE SignalOutcomes(r)
KillOutcomes(id) ==
    IF MapHas(sessions, id) THEN TermOutcomes(MapGet(sessions, id)) ELSE {"absent"}

\* the objects after process.kill(signal) on object r ended with outcome o
SignalRecs(r, o) ==
    CASE o = "sent" -> [recs EXCEPT ![r].process.killed = TRUE]
      [] o = "eperm" -> ErrorHandlerRecs(r)
      [] OTHER -> recs
SignalEmits(r, o) == IF o = "eperm" THEN ErrorHandlerEmits(r) ELSE <<>>
SignalThrows(o) == o = "throw" \/ (o = "eperm" /\ ErrorHandlerThrows)

\* lines 222-232: the try block of kill throws
KillThrows(o) == ~isWindows /\ SignalThrows(o)

\* faulty variant: the check of line 218 is missing
KillDeletesAbsent(o) == ~KillThrows(o)

\* line 234 is reached unless the id is absent or the try block threw (lines 237-240)
KillDeletes(o) == o # "absent" /\ ~KillThrows(o)

\* kill(id), lines 216-241, with outcome o: the objects, notifications, Map, iterators
KillRecs(id, o) ==
    IF o = "absent" \/ isWindows THEN recs ELSE SignalRecs(MapGet(sessions, id), o)
KillEmits(id, o) ==
    IF o = "absent" \/ isWindows THEN <<>> ELSE SignalEmits(MapGet(sessions, id), o)
KillSessions(id, o) == IF KillDeletes(o) THEN MapDelete(sessions, id) ELSE sessions
KillFrames(frames, id, o) ==
    IF KillDeletes(o) THEN IterAfterDelete(frames, sessions, id) ELSE frames
killReturns(id, o) == IF KillDeletes(o) THEN "true" ELSE "false"

Kill(id, o) ==
    /\ ~crashed /\ o \in KillOutcomes(id)
    /\ recs' = KillRecs(id, o)
    /\ sessions' = KillSessions(id, o)
    /\ microtasks' = KillFrames(microtasks, id, o)
    /\ UNCHANGED <<isWindows, errorListener, sessionCounter, now, hist, chunks, crashed, hook>>

\* ------------------------------------------------- sendInput, interrupt
\* What stdin.write can do: the text is written; the stream is already destroyed and
\* the text is dropped without an exception; write throws
WriteOutcomes(r) == IF recs[r].process.alive THEN {"written"} ELSE {"dropped", "throw"}
SendInputOutcomes(id) ==
    IF MapHas(sessions, id) THEN WriteOutcomes(MapGet(sessions, id)) ELSE {"absent"}

\* sendInput(id, input), lines 168-183 (stdio is 'pipe', so process.stdin is set)
SendInputRecs(id, o) ==
    IF o \in {"absent", "throw"} THEN recs
    ELSE [recs EXCEPT ![MapGet(sessions, id)].lastActivity = now]
sendInputReturns(id, o) == IF o \in {"absent", "throw"} THEN "false" ELSE "true"

SendInput(id, o) ==
    /\ ~crashed /\ o \in SendInputOutcomes(id)
    /\ recs' = SendInputRecs(id, o)
    /\ UNCHANGED <<isWindows, errorListener, sessions, sessionCounter, now, microtasks,
                   hist, chunks, crashed, hook>>

InterruptOutcomes(id) ==
    IF ~MapHas(sessions, id) THEN {"absent"}
    ELSE IF isWindows THEN WriteOutcomes(MapGet(sessions, id))
    ELSE SignalOutcomes(MapGet(sessions, id))

\* interrupt(id), lines 188-211: line 200-201 on Windows, line 204 elsewhere
InterruptRecs(id, o) ==
    IF o = "absent" THEN recs
    ELSE IF isWindows
    THEN IF o = "throw" THEN recs
         ELSE [recs EXCEPT ![MapGet(sessions, id)].lastActivity = now]
    ELSE SignalRecs(MapGet(sessions, id), o)
InterruptEmits(id, o) ==
    IF o = "absent" \/ isWindows THEN <<>> ELSE SignalEmits(MapGet(sessions, id), o)
interruptReturns(id, o) ==
    IF o = "absent" THEN "false"
    ELSE IF isWindows THEN (IF o = "throw" THEN "false" ELSE "true")
    ELSE IF SignalThrows(o) THEN "false" ELSE "true"

Interrupt(id, o) ==
    /\ ~crashed /\ o \in InterruptOutcomes(id)
    /\ recs' = InterruptRecs(id, o)
    /\ UNCHANGED <<isWindows, errorListener, sessions, sessionCounter, now, microtasks,
                   hist, chunks, crashed, hook>>

\* ------------------------------------------------------------ getOutput
RECURSIVE Join(_)
\* array.join('\n'), computed by halves
Join(lines) ==
    IF Len(lines) = 0 THEN <<>>
    ELSE IF Len(lines) = 1 THEN lines[1]
    ELSE LET mid == Len(lines) \div 2
         IN  Join(SubSeq(lines, 1, mid)) \o <<NL>> \o Join(SubSeq(lines, mid + 1, Len(lines)))

\* getOutput(id, lines), lines 246-257; linesOpt is NULL when lines is not passed,
\* and a lines of 0 is falsy at line 252
getOutput(id, linesOpt) ==
    IF ~MapHas(sessions, id) THEN <<>>
    ELSE LET buf == recs[MapGet(sessions, id)].outputBuffer
             output == IF linesOpt # NULL /\ linesOpt[1] # 0
                       THEN SliceLast(buf, linesOpt[1])
                       ELSE buf
         IN  Join(output)

\* ------------------------------------------------------------ checkHealth
\* line 265
IsAlive(session) == ~session.process.killed /\ session.process.exitCode = NULL

\* faulty variant: a pass inverts the status of every record
HealthStatusToggles(session) == IF session.status = "offline" THEN "idle" ELSE "offline"

\* lines 267-275: the status checkHealth leaves a record with
HealthStatus(session) ==
    IF ~IsAlive(session) /\ session.status # "offline" THEN "offline"
    ELSE IF IsAlive(session) /\ session.status = "offline" THEN "idle"
    ELSE session.status

RECURSIVE HealthEmits(_)
\* the statusChange notifications of one pass over the Map entries m, in order
HealthEmits(m) ==
    IF m = <<>> THEN <<>>
    ELSE LET session == recs[Head(m).ref]
         IN  (IF HealthStatus(session) # session.status
              THEN <<StatusChange(session.id, HealthStatus(session))>>
              ELSE <<>>) \o HealthEmits(Tail(m))

Registered(r) == \E i \in 1..Len(sessions) : sessions[i].ref = r

\* faulty variant: a pass also stamps the records it marks
HealthRecsStampsActivity ==
    [r \in 1..Len(recs) |->
        IF Registered(r) /\ HealthStatus(recs[r]) # recs[r].status
        THEN [recs[r] EXCEPT !.status = HealthStatus(recs[r]), !.lastActivity = now]
        ELSE recs[r]]

\* the objects after one pass
HealthRecs ==
    [r \in 1..Len(recs) |->
        IF Registered(r) THEN [recs[r] EXCEPT !.status = HealthStatus(recs[r])]
        ELSE recs[r]]

\* checkHealth(), lines 262-277
CheckHealth ==
    /\ ~crashed
    /\ recs' = HealthRecs
    /\ UNCHANGED <<isWindows, errorListener, sessions, sessionCounter, now, microtasks,
                   hist, chunks, crashed, hook>>

\* ---------------------------------------------- updateStatus, link, find
\* updateStatus(id, status), lines 282-288
UpdateStatusChanges(id, status) ==
    MapHas(sessions, id) /\ recs[MapGet(sessions, id)].status # status
UpdateStatusRecs(id, status) ==
    IF UpdateStatusChanges(id, status)
    THEN [recs EXCEPT ![MapGet(sessions, id)].status = status]
    ELSE recs
\* faulty variant: the notification is emitted without the comparison of line 284
UpdateStatusEmitsAlways(id, status) == <<StatusChange(id, status)>>

UpdateStatusEmits(id, status) ==
    IF UpdateStatusChanges(id, status) THEN <<StatusChange(id, status)>> ELSE <<>>

UpdateStatus(id, status) ==
    /\ ~crashed
    /\ recs' = UpdateStatusRecs(id, status)
    /\ UNCHANGED <<isWindows, errorListener, sessions, sessionCounter, now, microtasks,
                   hist, chunks, crashed, hook>>

\* linkClaudeSession(managedId, claudeSessionId), lines 293-298
LinkRecs(id, ext) ==
    IF MapHas(sessions, id)
    THEN [recs EXCEPT ![MapGet(sessions, id)].claudeSessionId = Some(ext)]
    ELSE recs

LinkClaudeSession(id, ext) ==
    /\ ~crashed
    /\ recs' = LinkRecs(id, ext)
    /\ UNCHANGED <<isWindows, errorListener, sessions, sessionCounter, now, microtasks,
                   hist, chunks, crashed, hook>>

\* lines 304-309 over the Map m and the objects rs: the first match in Map order
FindIn(m, rs, ext) ==
    LET hits == SelectSeq(MapValues(m), LAMBDA r : rs[r].claudeSessionId = Some(ext))
    IN  IF hits = <<>> THEN NULL ELSE Some(Head(hits))

\* findByClaudeSession(claudeSessionId), lines 303-310
findByClaudeSession(ext) == FindIn(sessions, recs, ext)

\* ------------------------------------------------------------ restart
PendingCreates ==
    Len(SelectSeq(microtasks, LAMBDA f : f.kind = "restart" /\ f.pc = "create"))
CanSuspend == Len(microtasks) < MaxInflight

\* line 316-319: restart returns null at once for an id that is not in the Map
restartReturnsNull(id) == ~MapHas(sessions, id)

\* restart(id), lines 315-322, with the outcome o of its kill: up to the first await
RestartFrames(id, o) ==
    IF o = "absent" THEN microtasks
    ELSE Append(KillFrames(microtasks, id, o),
                RestartFrame("create", id, MapGet(sessions, id), 0))

RestartCall(id, o) ==
    /\ ~crashed /\ o \in KillOutcomes(id)
    /\ recs' = KillRecs(id, o)
    /\ sessions' = KillSessions(id, o)
    /\ microtasks' = RestartFrames(id, o)
    /\ UNCHANGED <<isWindows, errorListener, sessionCounter, now, hist, chunks, crashed, hook>>

Restart(id, o) ==
    /\ o # "absent" => CanSuspend /\ sessionCounter + PendingCreates < MaxProcs
    /\ RestartCall(id, o)

RestartAt(pc) ==
    /\ microtasks # <<>>
    /\ Head(microtasks).kind = "restart"
    /\ Head(microtasks).pc = pc

\* lines 325-328: createSession with the name and cwd of the old record; when it
\* throws, restart rejects
RestartCreate(o) ==
    /\ ~crashed /\ RestartAt("create")
    /\ LET f == Head(microtasks)
           existing == recs[f.existing]
       IN  /\ CreateSessionBody(Some(existing.name), Some(existing.cwd), DefaultFlags, o)
           /\ microtasks' =
                IF LaunchThrows(o) THEN Tail(microtasks)
                ELSE Append(Tail(microtasks),
                            RestartFrame("rename", f.id, f.existing, Len(recs) + 1))
    /\ UNCHANGED <<isWindows, errorListener, now, chunks, crashed, hook>>

\* lines 331-333: the Map after the new record moved to the original id
RenameSessions(m, session, id) == MapSet(MapDelete(m, recs[session].id), id, session)

\* faulty variant: the record keeps the id it was created with
RenameRecsKeepsId(session, id) == recs

\* line 332
RenameRecs(session, id) == [recs EXCEPT ![session].id = id]

\* lines 331-335
RestartRename ==
    /\ ~crashed /\ RestartAt("rename")
    /\ LET f == Head(microtasks) IN
         /\ sessions' = RenameSessions(sessions, f.session, f.id)
         /\ recs' = RenameRecs(f.session, f.id)
         /\ microtasks' = IterAfterDelete(Tail(microtasks), sessions, recs[f.session].id)
    /\ UNCHANGED <<isWindows, errorListener, sessionCounter, now, hist, chunks, crashed, hook>>

\* ------------------------------------------------------------ cleanup
\* one turn of the loop of lines 342-344 with the iterator at pos: kill the next key
CleanupTurn(frames, pos, snapshot, attempted, o) ==
    LET id == sessions[pos + 1].key IN
    /\ o \in KillOutcomes(id)
    /\ recs' = KillRecs(id, o)
    /\ sessions' = KillSessions(id, o)
    /\ microtasks' = Append(KillFrames(frames, id, o),
                            CleanupFrame(IF KillDeletes(o) THEN pos ELSE pos + 1,
                                         snapshot,
                                         attempted \cup {sessions[pos + 1].ref}))

\* cleanup(), lines 341-346: up to the first await, or to the end when the Map is empty
CleanupCall ==
    /\ ~crashed
    /\ IF sessions = <<>>
       THEN UNCHANGED <<recs, sessions, microtasks>>
       ELSE \E o \in KillOutcomes(sessions[1].key) :
                CleanupTurn(microtasks, 0, MapKeys(sessions), {}, o)
    /\ UNCHANGED <<isWindows, errorListener, sessionCounter, now, hist, chunks, crashed, hook>>

Cleanup ==
    /\ sessions # <<>> => CanSuspend
    /\ CleanupCall

\* cleanup() resumes after an await: the next key, or the end of the loop
CleanupResume ==
    /\ ~crashed /\ microtasks # <<>>
    /\ Head(microtasks).kind = "cleanup"
    /\ LET pos == Head(microtasks).pos IN
         IF pos < Len(sessions)
         THEN \E o \in KillOutcomes(sessions[pos + 1].key) :
                CleanupTurn(Tail(microtasks), pos, Head(microtasks).snapshot,
                            Head(microtasks).attempted, o)
         ELSE /\ microtasks' = Tail(microtasks)
              /\ UNCHANGED <<recs, sessions>>
    /\ UNCHANGED <<isWindows, errorListener, sessionCounter, now, hist, chunks, crashed, hook>>

\* ------------------------------------------------------------ vibecraft-hook.ps1
\* Texts are sequences of character codes.
BACKSLASH == 92
QUOTE == 34
LOWER_N == 110

\* What ConvertTo-Json writes for a string: a backslash before a backslash and before
\* a quote, and the two characters \n for a line feed (line 168).
RECURSIVE Escape(_)
EscapeKeepsLineFeed(text) == text
Escape(text) ==
    IF text = <<>> THEN <<>>
    ELSE LET c == Head(text)
         IN  (CASE c = NL -> <<BACKSLASH, LOWER_N>>
                [] c = BACKSLASH -> <<BACKSLASH, BACKSLASH>>
                [] c = QUOTE -> <<BACKSLASH, QUOTE>>
                [] OTHER -> <<c>>) \o Escape(Tail(text))

\* What a JSON reader makes of such a string (JSON.parse at part_003, line 157).
RECURSIVE Unescape(_)
Unescape(text) ==
    IF text = <<>> THEN <<>>
    ELSE IF Head(text) = BACKSLASH /\ Len(text) > 1
         THEN <<IF text[2] = LOWER_N THEN NL ELSE text[2]>> \o Unescape(Tail(Tail(text)))
         ELSE <<Head(text)>> \o Unescape(Tail(text))

\* The standard input of a run: text ConvertFrom-Json rejects ("invalid"), no text at
\* all ("empty"), the JSON value null, or a JSON object with the properties
\* hook_event_name, session_id and cwd, each a string or missing (NULL).
HookEventNames ==
    {"PreToolUse", "PostToolUse", "Stop", "SubagentStop", "SessionStart", "SessionEnd",
     "UserPromptSubmit", "Notification", "PreCompact", "pretooluse", "Other"}
HookSessionIds == {<<>>, <<115, 49>>, <<115, QUOTE>>}
HookCwds == {<<67, BACKSLASH, LOWER_N>>, <<97, NL, 98>>}
OptionalOf(S) == {NULL} \cup {Some(v) : v \in S}
HookObjects ==
    [kind : {"object"}, hook_event_name : OptionalOf(HookEventNames),
     session_id : OptionalOf(HookSessionIds), cwd : OptionalOf(HookCwds)]
NoProperties(kind) ==
    [kind |-> kind, hook_event_name |-> NULL, session_id |-> NULL, cwd |-> NULL]
HookInputs == HookObjects \cup {NoProperties(k) : k \in {"invalid", "empty", "null"}}

\* ConvertFrom-Json throws on text that is no JSON and, in the Windows PowerShell that
\* getHookCommand starts, on the empty string (lines 42-44).
ParseFails(stdinContent) == stdinContent.kind \in {"invalid", "empty"}

\* if ($data.x) { $data.x } else { default }: a missing property and the empty string
\* are both false (lines 54-56).
OrDefault(property, default) ==
    IF property = NULL \/ property[1] = <<>> THEN default ELSE property[1]
UNKNOWN == <<117, 110, 107, 110, 111, 119, 110>>

\* the switch of lines 67-78; switch compares strings without regard to case
eventTypeStopForAll(hookEventName) == "stop"
eventType(hookEventName) ==
    CASE hookEventName \in {"PreToolUse", "pretooluse"} -> "pre_tool_use"
      [] hookEventName = "PostToolUse" -> "post_tool_use"
      [] hookEventName = "Stop" -> "stop"
      [] hookEventName = "SubagentStop" -> "subagent_stop"
      [] hookEventName = "SessionStart" -> "session_start"
      [] hookEventName = "SessionEnd" -> "session_end"
      [] hookEventName = "UserPromptSubmit" -> "user_prompt_submit"
      [] hookEventName = "Notification" -> "notification"
      [] hookEventName = "PreCompact" -> "pre_compact"
      [] OTHER -> "unknown"

\* The event of lines 84-90, without its id and timestamp and without the properties
\* lines 92-160 add for its type.
HookEvent(data) ==
    [type |-> eventType(IF data.hook_event_name = NULL THEN "unknown"
                        ELSE data.hook_event_name[1]),
     sessionId |-> OrDefault(data.session_id, UNKNOWN),
     cwd |-> OrDefault(data.cwd, <<>>)]

\* $event | ConvertTo-Json -Compress (line 168): the line, as the text written for each
\* property; the type is one of the ten words of the switch, written as it is.
ConvertToJson(event) ==
    [type |-> event.type, sessionId |-> Escape(event.sessionId), cwd |-> Escape(event.cwd)]

\* the two entries of lines 48-49
ParseErrorEntries(stdinContent) ==
    <<[entry |-> "Failed to parse JSON"], [entry |-> "Input was", input |-> stdinContent]>>

\* Before the first run: both files empty (Add-Content creates them).
HookStart ==
    [eventsFile |-> <<>>, errorLog |-> <<>>, runs |-> 0, stdinContent |-> NULL,
     exitCode |-> NULL]

MaxRuns == 2

\* One run of the script on the standard input stdinContent (lines 13-189); the
\* notification of lines 177-187 is sent by a job and changes no file.
RunHook(stdinContent) ==
    /\ hook.runs < MaxRuns
    /\ hook' =
         IF ParseFails(stdinContent)
         THEN [hook EXCEPT !.errorLog = @ \o ParseErrorEntries(stdinContent),
                           !.runs = @ + 1,
                           !.stdinContent = Some(stdinContent),
                           !.exitCode = Some(1)]
         ELSE [hook EXCEPT !.eventsFile = Append(@, ConvertToJson(HookEvent(stdinContent))),
                           !.runs = @ + 1,
                           !.stdinContent = Some(stdinContent),
                           !.exitCode = Some(0)]
    /\ UNCHANGED <<isWindows, errorListener, sessions, recs, sessionCounter, now,
                   microtasks, hist, chunks, crashed>>

\* ------------------------------------------------------------ the system
\* the state after new ProcessSessionManager() (lines 53-60)
Init ==
    /\ isWindows \in BOOLEAN
    /\ errorListener \in BOOLEAN
    /\ sessions = <<>>
    /\ recs = <<>>
    /\ sessionCounter = 0
    /\ now = 0
    /\ microtasks = <<>>
    /\ hist = <<>>
    /\ chunks = 0
    /\ crashed = FALSE
    /\ hook = HookStart

\* the inputs
DefaultOptions == [name |-> NULL, cwd |-> NULL, flags |-> DefaultFlags]
CreateInputs ==
    {DefaultOptions,
     [name |-> Some([text |-> "A", num |-> 0]), cwd |-> Some("/w"),
      flags |-> [continue |-> "false", skipPermissions |-> "false", chrome |-> "true"]]}
Texts == {<<97>>, <<97, NL>>, <<97, NL, 98>>}
\* the code never tells working from waiting: working stands for both in SpecLife
StatusInputs == {"idle", "working", "offline"}
AllOutcomes == {"absent", "sent", "esrch", "eperm", "throw", "done", "failed",
                "written", "dropped"}
Objects == 1..Len(recs)

Create == \E options \in CreateInputs, o \in LaunchOutcomes : CreateSession(options, o)
CreateDefault == \E o \in LaunchOutcomes : CreateSession(DefaultOptions, o)
Stdout == \E r \in Objects, text \in Texts : chunks < MaxChunks /\ StdoutData(r, text)
Stderr == \E r \in Objects, text \in Texts : chunks < MaxChunks /\ StderrData(r, text)
Exit == \E r \in Objects, code \in ExitCodes : ProcExit(r, code)
Error == \E r \in Objects : ProcError(r)
KillOp == \E id \in Ids, o \in AllOutcomes : Kill(id, o)
SendInputOp == \E id \in Ids, o \in AllOutcomes : SendInput(id, o)
InterruptOp == \E id \in Ids, o \in AllOutcomes : Interrupt(id, o)
UpdateStatusOp == \E id \in Ids, status \in Statuses : UpdateStatus(id, status)
UpdateStatusSome == \E id \in Ids, status \in StatusInputs : UpdateStatus(id, status)
LinkOp == \E id \in Ids, ext \in LinkInputs : LinkClaudeSession(id, ext)
RestartOp == \E id \in Ids, o \in AllOutcomes : Restart(id, o)
RestartCreateStep == \E o \in LaunchOutcomes : RestartCreate(o)

\* every operation and event
Next ==
    \/ Create
    \/ Stdout
    \/ Stderr
    \/ Exit
    \/ Error
    \/ Tick
    \/ KillOp
    \/ SendInputOp
    \/ InterruptOp
    \/ CheckHealth
    \/ UpdateStatusOp
    \/ LinkOp
    \/ RestartOp
    \/ RestartCreateStep
    \/ RestartRename
    \/ Cleanup
    \/ CleanupResume

Spec == Init /\ [][Next]_vars

\* The life cycle of sessions: creation with the default options, the process
\* events, kill, interrupt, checkHealth, updateStatus and restart; no output, no
\* clock, no links.
NextLife ==
    \/ CreateDefault
    \/ Exit
    \/ Error
    \/ KillOp
    \/ InterruptOp
    \/ CheckHealth
    \/ UpdateStatusSome
    \/ RestartOp
    \/ RestartCreateStep
    \/ RestartRename

SpecLife == Init /\ [][NextLife]_vars

\* The output buffer of one session: its process writes the lines 1, 2, 3, ... (line
\* n is the one character LineChar(n)), cut into chunks of ChunkLines lines, each
\* chunk on stdout or on stderr.
BufChunks == 5
ChunkLines == {1, 250}
LineChar(n) == 100 + n
ChunkText(first, k) == Join([i \in 1..k |-> <<LineChar(first + i - 1)>>])
\* the lines the process of object r has written so far
Written(r) == Len(hist[r])

CreateFirst == recs = <<>> /\ CreateSession(DefaultOptions, "ok")
StdoutLines ==
    \E r \in Objects, k \in ChunkLines :
        chunks < BufChunks /\ StdoutData(r, ChunkText(Written(r) + 1, k))
StderrLines ==
    \E r \in Objects, k \in ChunkLines :
        chunks < BufChunks /\ StderrData(r, ChunkText(Written(r) + 1, k))

NextBuf ==
    \/ CreateFirst
    \/ StdoutLines
    \/ StderrLines

SpecBuf == Init /\ [][NextBuf]_vars

\* Input, output and links of sessions: creation with the default options, chunks
\* on stdout and stderr, the clock, sendInput, linkClaudeSession, kill and the exit
\* of a process.
NextIO ==
    \/ CreateDefault
    \/ Stdout
    \/ Stderr
    \/ Tick
    \/ SendInputOp
    \/ LinkOp
    \/ KillOp
    \/ Exit

SpecIO == Init /\ [][NextIO]_vars

\* Shutdown: creation with the default options, the exit of a process, kill and
\* cleanup.
NextClean ==
    \/ CreateDefault
    \/ Exit
    \/ KillOp
    \/ Cleanup
    \/ CleanupResume

SpecClean == Init /\ [][NextClean]_vars

\* Overlapping restarts of one session: a first session, then restart calls that may
\* start while an earlier one is suspended, up to DeepInflight suspended calls and
\* DeepProcs processes in all; the launches succeed.
DeepProcs == 3
DeepInflight == 2
RestartDeep ==
    \E id \in 1..DeepProcs, o \in AllOutcomes :
        /\ Len(microtasks) < DeepInflight
        /\ sessionCounter + PendingCreates < DeepProcs
        /\ RestartCall(id, o)
RestartCreateOk == RestartCreate("ok")

NextDeep ==
    \/ CreateFirst
    \/ RestartDeep
    \/ RestartCreateOk
    \/ RestartRename
    \/ Exit

SpecDeep == Init /\ [][NextDeep]_vars

\* The output of one session beside changes of its status: the chunks of SpecBuf,
\* updateStatus, checkHealth and the exit of the process.
NextOrder ==
    \/ CreateFirst
    \/ StdoutLines
    \/ StderrLines
    \/ UpdateStatusSome
    \/ CheckHealth
    \/ Exit

SpecOrder == Init /\ [][NextOrder]_vars

\* One session under a periodic checkHealth: the timer that calls checkHealth keeps
\* firing, and a queued 'error' event is delivered (weak fairness of both); whether
\* and when the process exits and what the caller does is left open.
CreateOnly == recs = <<>> /\ CreateDefault

NextFair ==
    \/ CreateOnly
    \/ Exit
    \/ Error
    \/ CheckHealth
    \/ UpdateStatusSome
    \/ InterruptOp
    \/ KillOp

SpecFair ==
    Init /\ [][NextFair]_vars /\ WF_vars(CheckHealth) /\ WF_vars(Error)

\* Runs of vibecraft-hook.ps1, one after the other, each on its own standard input.
HookParsed == \E stdinContent \in HookInputs : ~ParseFails(stdinContent) /\ RunHook(stdinContent)
HookRejected == \E stdinContent \in HookInputs : ParseFails(stdinContent) /\ RunHook(stdinContent)

NextHook ==
    \/ HookParsed
    \/ HookRejected

SpecHook == Init /\ [][NextHook]_vars

\* The output of one process as a stream of characters: the process writes the lines
\* 1, 2, 3, ..., each the character LineChar(n) and a line feed, and the stream
\* reaches the stdout handler cut into chunks of StreamCuts characters, wherever the
\* cut falls: within a line, after a line feed, or after 501 whole lines.
StreamChunks == 4
StreamCuts == {1, 2, 3, 2 * (MAX_OUTPUT_BUFFER_LINES + 1)}
StreamChar(p) == IF p % 2 = 1 THEN LineChar((p + 1) \div 2) ELSE NL
StreamText(from, k) == [i \in 1..k |-> StreamChar(from + i - 1)]
RECURSIVE TotalLen(_)
TotalLen(entries) ==
    IF Len(entries) = 0 THEN 0
    ELSE IF Len(entries) = 1 THEN Len(entries[1])
    ELSE LET h == Len(entries) \div 2
         IN  TotalLen(SubSeq(entries, 1, h)) + TotalLen(SubSeq(entries, h + 1, Len(entries)))
\* the characters delivered so far: each chunk was pushed as one entry more than it
\* had line feeds, and the entries hold its other characters
Delivered(r) == TotalLen(hist[r]) + (Len(hist[r]) - chunks)
StreamStdout ==
    \E r \in Objects, k \in StreamCuts :
        chunks < StreamChunks /\ StdoutData(r, StreamText(Delivered(r) + 1, k))

NextStream ==
    \/ CreateFirst
    \/ StreamStdout

SpecStream == Init /\ [][NextStream]_vars

\* Launches with every combination of the three flags, and the exit of a process.
AllFlags == [continue : FlagValues, skipPermissions : FlagValues, chrome : FlagValues]
OptionsWith(flags) == [name |-> NULL, cwd |-> NULL, flags |-> flags]
CreateWithFlags ==
    \E flags \in AllFlags, o \in LaunchOutcomes : CreateSession(OptionsWith(flags), o)

NextFlags ==
    \/ CreateWithFlags
    \/ Exit

SpecFlags == Init /\ [][NextFlags]_vars

\* checkHealth among sessions that have output, timestamps and links: creation with
\* the default options, chunks on stdout, the clock, linkClaudeSession, the exit of a
\* process, updateStatus and checkHealth.
NextHealth ==
    \/ CreateDefault
    \/ Stdout
    \/ Tick
    \/ LinkOp
    \/ Exit
    \/ UpdateStatusSome
    \/ CheckHealth

SpecHealth == Init /\ [][NextHealth]_vars

\* The registry under every operation that adds or removes entries: creation with the
\* default options, kill, restart and cleanup, and the exit of a process.
NextRegistry ==
    \/ CreateDefault
    \/ KillOp
    \/ RestartOp
    \/ RestartCreateStep
    \/ RestartRename
    \/ Cleanup
    \/ CleanupResume
    \/ Exit

SpecRegistry == Init /\ [][NextRegistry]_vars

\* cleanup beside restarts: a first session, restart calls and cleanup calls that may
\* start while an earlier call is suspended (up to DeepInflight suspended calls and
\* DeepProcs processes in all), and the continuations of both.
CleanupDeep == Len(microtasks) < DeepInflight /\ CleanupCall

NextSweep ==
    \/ CreateFirst
    \/ RestartDeep
    \/ RestartCreateOk
    \/ RestartRename
    \/ CleanupDeep
    \/ CleanupResume

SpecSweep == Init /\ [][NextSweep]_vars

\* ====================================================================
\* Properties
\* ====================================================================
Keys == MapKeys(sessions)
RecordOf(id) == recs[MapGet(sessions, id)]

\* the statusChange notifications for id among emits
StatusChangesFor(emits, id) ==
    SelectSeq(emits, LAMBDA n : n.type = "statusChange" /\ n.id = id)

\* C1: for every registered id, after kill(id) completes the id is no longer in the
\* Map, whatever the termination call did (succeeded, raised, process already dead).
C1_KillAlwaysRemoves ==
    \A id \in Keys : \A o \in KillOutcomes(id) :
        /\ ~MapHas(KillSessions(id, o), id)
        /\ \A i \in 1..Len(KillSessions(id, o)) : KillSessions(id, o)[i].key # id

\* a restart() call ends in this step: its frame leaves the queue
RestartEnds ==
    /\ microtasks # <<>>
    /\ Head(microtasks).kind = "restart"
    /\ Len(microtasks') < Len(microtasks)

\* getSession(id) resolves in Map m with objects rs to a record whose id is id, and
\* no other record of m carries id
ResolvesTo(m, rs, id) ==
    /\ MapHas(m, id)
    /\ rs[MapGet(m, id)].id = id
    /\ \A i \in 1..Len(m) : rs[m[i].ref].id = id => m[i].key = id

\* C2: once restart(id) of a registered id has finished, getSession(id) resolves to a
\* record whose id field is id, and no other registered record carries that id.
C2_RestartKeepsId ==
    [][RestartEnds => ResolvesTo(sessions', recs', Head(microtasks).id)]_vars

\* the step from the objects recs to post that emitted emits changed the status of
\* each registered session exactly as often as it emitted statusChange for it
OneToOne(post, emits) ==
    \A id \in Keys :
        StatusChangesFor(emits, id) =
            IF post[MapGet(sessions, id)].status # RecordOf(id).status
            THEN <<StatusChange(id, post[MapGet(sessions, id)].status)>>
            ELSE <<>>

EventsEnabled == ~crashed /\ NoMicrotask

\* C3: statusChange notifications correspond one-to-one to changes of a session's
\* status: each change made by updateStatus, an exit event, an error event,
\* checkHealth or restart emits exactly one statusChange with the new status, and a
\* step that leaves the status unchanged emits none.
C3_StatusChangeOneToOne ==
    /\ \A id \in Ids, status \in Statuses :
           OneToOne(UpdateStatusRecs(id, status), UpdateStatusEmits(id, status))
    /\ OneToOne(HealthRecs, HealthEmits(sessions))
    /\ EventsEnabled =>
           /\ \A r \in Objects, code \in ExitCodes :
                  recs[r].process.alive =>
                      OneToOne(ExitHandlerRecs(r), ExitHandlerEmits(r, code))
           /\ \A r \in Objects :
                  recs[r].process.pendingError =>
                      OneToOne(ErrorHandlerRecs(r), ErrorHandlerEmits(r))
    /\ RestartAt("rename") =>
           recs[Head(microtasks).session].status = recs[Head(microtasks).existing].status

\* C4: updateStatus(id, s) on a registered session emits exactly one
\* statusChange(id, s) and sets the status to s when s differs from the current
\* status, and emits nothing and changes nothing when s is the current status.
C4_UpdateStatusExactlyOnce ==
    \A id \in Keys, s \in Statuses :
        IF s # RecordOf(id).status
        THEN /\ UpdateStatusEmits(id, s) = <<StatusChange(id, s)>>
             /\ UpdateStatusRecs(id, s) = [recs EXCEPT ![MapGet(sessions, id)].status = s]
        ELSE /\ UpdateStatusEmits(id, s) = <<>>
             /\ UpdateStatusRecs(id, s) = recs

\* updateStatus has changed the status of a registered session
C4_Witness == \E id \in Keys : RecordOf(id).status = "working"

\* the external ids no registered session is linked to
Unlinked == {e \in ExternalIds : \A id \in Keys : RecordOf(id).claudeSessionId # Some(e)}
LineLimits == {NULL, Some(0), Some(1), Some(10)}

\* C5: for every id that is not registered, each operation returns its absent result
\* and changes nothing: getSession undefined, sendInput false, interrupt false, kill
\* false, restart null, getOutput empty with or without a line limit, updateStatus
\* and linkClaudeSession no effect and no notification; findByClaudeSession of an
\* external id no session is linked to is undefined.
C5_AbsentResults ==
    /\ \A id \in Ids \ Keys :
        /\ getSession(id) = NULL
        /\ \A o \in SendInputOutcomes(id) :
               sendInputReturns(id, o) = "false" /\ SendInputRecs(id, o) = recs
        /\ \A o \in InterruptOutcomes(id) :
               /\ interruptReturns(id, o) = "false"
               /\ InterruptRecs(id, o) = recs
               /\ InterruptEmits(id, o) = <<>>
        /\ \A o \in KillOutcomes(id) :
               /\ killReturns(id, o) = "false"
               /\ KillRecs(id, o) = recs
               /\ KillSessions(id, o) = sessions
               /\ KillEmits(id, o) = <<>>
               /\ restartReturnsNull(id)
               /\ RestartFrames(id, o) = microtasks
        /\ \A n \in LineLimits : getOutput(id, n) = <<>>
        /\ \A s \in Statuses :
               UpdateStatusRecs(id, s) = recs /\ UpdateStatusEmits(id, s) = <<>>
        /\ \A e \in ExternalIds : LinkRecs(id, e) = recs
    /\ \A e \in Unlinked : findByClaudeSession(e) = NULL

\* a killed id beside a registered session that is linked and has output
C5_Witness ==
    /\ \E r \in Objects : ~MapHas(sessions, ClosureId(r))
    /\ \E id \in Keys :
           RecordOf(id).claudeSessionId # NULL /\ RecordOf(id).outputBuffer # <<>>

\* C6: after createSession succeeds, the new record is registered with status idle
\* and an empty outputBuffer, and its id differs from the id of every other
\* registered session.
C6_CreatedIdleAndUnique ==
    [][Len(recs') = Len(recs) + 1 =>
          LET r == Len(recs')
              id == recs'[r].id
          IN  /\ MapHas(sessions', id)
              /\ MapGet(sessions', id) = r
              /\ recs'[r].status = "idle"
              /\ recs'[r].outputBuffer = <<>>
              /\ \A i \in 1..Len(sessions') :
                     sessions'[i].ref # r => recs'[sessions'[i].ref].id # id]_vars

\* two sessions are registered
C6_Witness == Len(sessions) = 2 /\ Len(recs) = 2

\* C7: every session's outputBuffer holds at most 500 entries, whatever chunks have
\* arrived on stdout and stderr.
C7_BufferBounded ==
    \A r \in Objects : Len(recs[r].outputBuffer) <= MAX_OUTPUT_BUFFER_LINES

\* more than 500 entries were pushed and the buffer is full
C7_Witness ==
    \E r \in Objects :
        /\ Len(hist[r]) > MAX_OUTPUT_BUFFER_LINES
        /\ Len(recs[r].outputBuffer) = MAX_OUTPUT_BUFFER_LINES

\* C8: after more than 500 entries were appended the buffer holds exactly the 500
\* most recently appended entries in their order; with at most 500 appended it
\* holds all of them.
C8_NewestKept ==
    \A r \in Objects :
        /\ Len(hist[r]) > MAX_OUTPUT_BUFFER_LINES =>
               recs[r].outputBuffer =
                   SubSeq(hist[r], Len(hist[r]) - MAX_OUTPUT_BUFFER_LINES + 1, Len(hist[r]))
        /\ Len(hist[r]) <= MAX_OUTPUT_BUFFER_LINES => recs[r].outputBuffer = hist[r]

\* entries were evicted, tagged stderr entries among those kept
C8_Witness ==
    \E r \in Objects :
        /\ Len(hist[r]) > MAX_OUTPUT_BUFFER_LINES + 1
        /\ recs[r].outputBuffer[1] # hist[r][1]
        /\ \E i \in 1..Len(recs[r].outputBuffer) : Len(recs[r].outputBuffer[i]) > 1

\* C9: a launch failure in createSession (the executable is not found, or the spawn
\* fails) is reported to the caller as an error and leaves the Map unchanged.
C9_LaunchFailureRegistersNothing ==
    [][\A o \in LaunchOutcomes \ {"ok"} :
          (CreateSession(DefaultOptions, o) \/ RestartCreate(o)) =>
              createSessionReturns(o) = "throw" /\ sessions' = sessions]_vars

\* the process has not exited and has no recorded exit code
ProcessAlive(session) ==
    /\ session.process.alive \/ session.process.pendingError
    /\ session.process.exitCode = NULL

\* C10: right after a checkHealth pass, every registered session has status offline
\* if and only if its process is not alive.
C10_HealthMatchesLiveness ==
    \A id \in Keys :
        HealthRecs[MapGet(sessions, id)].status = "offline" <=> ~ProcessAlive(RecordOf(id))

\* the process of a record has not exited (a process whose failed spawn is not yet
\* reported counts as not exited)
HasNotExited(session) == session.process.alive \/ session.process.pendingError

\* C11: in every reachable state, every registered record whose status is idle,
\* working or waiting has a process that is alive (has not exited).
C11_NonOfflineHasLiveProcess ==
    \A id \in Keys : RecordOf(id).status # "offline" => HasNotExited(RecordOf(id))

\* the status of id is offline in the objects rs
OfflineIn(rs, id) == rs[MapGet(sessions, id)].status = "offline"

\* updateStatus moves no registered record into offline or out of it
UpdateStatusKeepsOffline ==
    \A id \in Keys, s \in Statuses :
        OfflineIn(UpdateStatusRecs(id, s), id) <=> OfflineIn(recs, id)

\* a process event of the record registered under id happens in this step: its exit,
\* its error event, or the error event process.kill raises synchronously
ProcessEventOf(id) ==
    LET r == MapGet(sessions, id)
    IN  \/ recs[r].process.alive /\ ~recs'[r].process.alive
        \/ recs[r].process.pendingError /\ ~recs'[r].process.pendingError
        \/ ~isWindows /\ "eperm" \in SignalOutcomes(r) /\ recs' = SignalRecs(r, "eperm")

\* this step is a checkHealth pass
HealthStep == recs' = HealthRecs /\ sessions' = sessions

\* the moves of one step into and out of offline have a cause the supervisor owns
OfflineMovesOwned ==
    \A id \in Keys \cap MapKeys(sessions') :
        LET before == RecordOf(id)
            after == recs'[MapGet(sessions', id)]
        IN  /\ (before.status = "offline" /\ after.status # "offline") =>
                \/ HealthStep /\ IsAlive(before)
                \/ RestartAt("rename") /\ Head(microtasks).id = id
            /\ (before.status # "offline" /\ after.status = "offline") =>
                \/ HealthStep
                \/ ProcessEventOf(id)

\* C12: a record leaves offline only through a checkHealth pass that sees a live
\* process or through restart, and enters offline only through a process exit or
\* error event or a checkHealth pass; updateStatus never moves a record out of
\* offline or into offline.
C12_OfflineOnlyBySupervisor ==
    [](UpdateStatusKeepsOffline) /\ [][OfflineMovesOwned]_vars

\* C13: interrupt(id) on a registered session never deregisters it, and when the
\* process is still running after the interrupt a following checkHealth pass does
\* not move the session to offline; on the signal branch and on the control-byte
\* branch.
C13_InterruptIsAdvisory ==
    \A id \in Keys : \A o \in InterruptOutcomes(id) :
        LET after == InterruptRecs(id, o)[MapGet(sessions, id)]
        IN  after.process.alive =>
                (HealthStatus(after) = "offline" => after.status = "offline")

\* C14: sendInput(id, text) returns false when id is absent or the input stream is
\* closed (as after the exit of the process), and returns true and updates
\* lastActivity only when the text was written to the process.
C14_SendInputReportsWrite ==
    \A id \in Ids : \A o \in SendInputOutcomes(id) :
        /\ sendInputReturns(id, o) = "true" <=> o = "written"
        /\ SendInputRecs(id, o) =
               IF o = "written"
               THEN [recs EXCEPT ![MapGet(sessions, id)].lastActivity = now]
               ELSE recs

\* C15: handling a process error event never raises out of the handler and always
\* ends with status offline and with the error notification followed by
\* statusChange(offline) emitted, with or without a subscriber for error.
C15_ErrorEventHandled ==
    \A r \in Objects :
        recs[r].process.pendingError =>
            /\ ~ErrorHandlerThrows
            /\ ErrorHandlerRecs(r)[r].status = "offline"
            /\ ErrorHandlerEmits(r) =
                   <<ErrorEvent(ClosureId(r)), StatusChange(ClosureId(r), "offline")>>

\* the notifications the process of object r can produce in this state
ProcessEmits(r) ==
    {StdoutEmits(r, text)[1] : text \in Texts}
    \cup {ExitHandlerEmits(r, code)[i] : code \in ExitCodes, i \in 1..2}
    \cup {ErrorEvent(ClosureId(r)), StatusChange(ClosureId(r), "offline")}

\* C16: every notification produced by the process of a registered session carries
\* the id under which the session is registered, also after restart(id), where it is
\* the original id that getSession and the returned record report.
C16_NotificationsCarryRegisteredId ==
    \A id \in Keys :
        /\ RecordOf(id).id = id
        /\ \A n \in ProcessEmits(MapGet(sessions, id)) : n.id = id

\* C18: kill(id) returns true exactly when a record was registered under id at the
\* call, whatever the termination attempt did; a second kill(id) right after one
\* that returned true returns false.
C18_KillReturnsWasRegistered ==
    \A id \in Ids : \A o \in KillOutcomes(id) :
        /\ killReturns(id, o) = "true" <=> MapHas(sessions, id)
        /\ killReturns(id, o) = "true" => ~MapHas(KillSessions(id, o), id)

\* the last k entries of buf
LastEntries(buf, k) == [i \in 1..k |-> buf[Len(buf) - k + i]]
Min(a, b) == IF a <= b THEN a ELSE b
LimitInputs == 0..3

\* C19: for a registered session with buffer B and a line limit n >= 0,
\* getOutput(id, n) is the last min(n, |B|) entries of B joined in order (empty for
\* n = 0), and getOutput(id) without a limit is all of B joined in order.
C19_GetOutputLastLines ==
    \A id \in Keys :
        LET B == RecordOf(id).outputBuffer
        IN  /\ \A n \in LimitInputs :
                   getOutput(id, Some(n)) = Join(LastEntries(B, Min(n, Len(B))))
            /\ getOutput(id, NULL) = Join(B)

\* a cleanup() call returns in this step: its loop ends and its frame leaves the queue
CleanupReturns ==
    /\ microtasks # <<>>
    /\ Head(microtasks).kind = "cleanup"
    /\ microtasks' = Tail(microtasks)
    /\ sessions' = sessions

\* C17: when cleanup() returns, every session that was registered when it was
\* called has left the Map, and the sweep has gone past every entry, those whose
\* kill failed included.
C17_CleanupRemovesAll ==
    [][CleanupReturns =>
          /\ Head(microtasks).snapshot \cap MapKeys(sessions') = {}
          /\ Head(microtasks).pos >= Len(sessions)]_vars

\* none of the notifications emits carries the id other
NoneFor(emits, other) == \A i \in 1..Len(emits) : emits[i].id # other

\* the record registered under other is the same in the objects rs as now
SameRecord(rs, other) == rs[MapGet(sessions, other)] = RecordOf(other)

\* C20: a failure of one registered session (its process exits or reports an error,
\* a sendInput or interrupt that returns false, a kill whose termination attempt
\* fails) leaves the record of every other registered session unchanged and its
\* Map entry in place, and emits no notification carrying another session's id.
C20_FailureStaysLocal ==
    \A id \in Keys : \A other \in Keys \ {id} :
        LET r == MapGet(sessions, id)
        IN  /\ recs[r].process.alive =>
                   \A code \in ExitCodes :
                       /\ SameRecord(ExitHandlerRecs(r), other)
                       /\ NoneFor(ExitHandlerEmits(r, code), other)
            /\ recs[r].process.pendingError =>
                   /\ SameRecord(ErrorHandlerRecs(r), other)
                   /\ NoneFor(ErrorHandlerEmits(r), other)
            /\ \A o \in SendInputOutcomes(id) :
                   sendInputReturns(id, o) = "false" => SameRecord(SendInputRecs(id, o), other)
            /\ \A o \in InterruptOutcomes(id) :
                   interruptReturns(id, o) = "false" =>
                       /\ SameRecord(InterruptRecs(id, o), other)
                       /\ NoneFor(InterruptEmits(id, o), other)
            /\ \A o \in KillOutcomes(id) :
                   /\ SameRecord(KillRecs(id, o), other)
                   /\ NoneFor(KillEmits(id, o), other)
                   /\ MapHas(KillSessions(id, o), other)
                   /\ MapGet(KillSessions(id, o), other) = MapGet(sessions, other)

\* the process of object r, a registered session, has terminated
Terminated(r) ==
    /\ r <= Len(recs) /\ Registered(r)
    /\ ~recs[r].process.alive /\ ~recs[r].process.pendingError

\* object r is offline or has left the Map
OfflineOrRemoved(r) ==
    r <= Len(recs) /\ (~Registered(r) \/ recs[r].status = "offline")

\* C21: with checkHealth run again and again and process events delivered, when the
\* process of a registered session has terminated the session eventually has status
\* offline or is removed from the Map.
C21_TerminatedLeadsToOffline ==
    \A r \in 1..MaxProcs : Terminated(r) ~> OfflineOrRemoved(r)

\* a restart() call returns its record in this step: the re-keying of lines 331-335
RestartSucceeds ==
    /\ RestartAt("rename")
    /\ Len(microtasks') < Len(microtasks)

\* C22: after a successful restart(id) the record registered under id has the name
\* and the working directory of the record it replaced, another process handle, an
\* empty outputBuffer and status idle, whatever the replaced record's status and
\* buffer were.
C22_RestartGivesFreshRecord ==
    [][RestartSucceeds =>
          LET f == Head(microtasks)
              old == recs[f.existing]
          IN  /\ MapHas(sessions', f.id)
              /\ MapGet(sessions', f.id) # f.existing
              /\ LET new == recs'[MapGet(sessions', f.id)]
                 IN  /\ new.name = old.name
                     /\ new.cwd = old.cwd
                     /\ new.outputBuffer = <<>>
                     /\ new.status = "idle"]_vars

\* C23: after linkClaudeSession(id, e) on a registered id, findByClaudeSession(e)
\* returns a registered record linked to e, and it is the record of id when no other
\* registered session is linked to e; after kill(id), findByClaudeSession(e) no
\* longer returns that record; findByClaudeSession of an external id that no
\* registered session is linked to returns undefined.
C23_LinkThenFind ==
    /\ \A id \in Keys, e \in ExternalIds :
           LET r == MapGet(sessions, id)
               linked == LinkRecs(id, e)
               found == FindIn(sessions, linked, e)
           IN  /\ found # NULL
               /\ Registered(found[1])
               /\ linked[found[1]].claudeSessionId = Some(e)
               /\ (\A other \in Keys \ {id} : RecordOf(other).claudeSessionId # Some(e))
                      => found = Some(r)
               /\ \A o \in KillOutcomes(id) :
                      FindIn(KillSessions(id, o), KillRecs(id, o), e) # Some(r)
    /\ \A e \in Unlinked : findByClaudeSession(e) = NULL

\* the number of the line a buffer entry holds: its last character
LineNo(entry) == entry[Len(entry)] - LineChar(0)

\* the buffer of object r holds the most recent lines its process wrote, in the
\* order of their arrival, whichever stream they came on
InArrivalOrder(r) ==
    LET buf == recs[r].outputBuffer
    IN  \A i \in 1..Len(buf) : LineNo(buf[i]) = Written(r) - Len(buf) + i

\* each statusChange among emits carries the status its session has in the objects
\* post, and no session has two of them
StatusChangesFollow(emits, post) ==
    /\ \A i \in 1..Len(emits) :
           emits[i].type = "statusChange" =>
               \E r \in Objects :
                   /\ emits[i].id \in {post[r].id, ClosureId(r)}
                   /\ post[r].status = emits[i].status
    /\ \A i, j \in 1..Len(emits) :
           (i # j /\ emits[i].type = "statusChange" /\ emits[j].type = "statusChange")
               => emits[i].id # emits[j].id

C25_ReturnedRecordsAreSnapshots ==
    \A id \in Keys :
        LET held == MapGet(sessions, id)
            handed == {getSession(id)[1]} \cup {getSessions[i] : i \in 1..Len(getSessions)}
        IN  \A ref \in handed :
                /\ \A status \in Statuses : CallerSetsStatus(ref, status)[held] = recs[held]
                /\ CallerSetsBuffer(ref, <<>>)[held] = recs[held]
                /\ CallerSetsBuffer(ref, <<STDERR_TAG>>)[held] = recs[held]
                /\ \A other \in Ids : CallerSetsId(ref, other)[held] = recs[held]

\* C26: a run of the hook whose input parses appends exactly one line to the events
\* file, a single line that carries the type mapped from the input's event name and
\* the input's session id; a run whose input fails to parse leaves the events file as
\* it was, adds to the error log and exits with code 1.
MappedType(name) ==
    CASE name = "PreToolUse" -> "pre_tool_use"
      [] name = "PostToolUse" -> "post_tool_use"
      [] name = "Stop" -> "stop"
      [] name = "SubagentStop" -> "subagent_stop"
      [] name = "SessionStart" -> "session_start"
      [] name = "SessionEnd" -> "session_end"
      [] name = "UserPromptSubmit" -> "user_prompt_submit"
      [] name = "Notification" -> "notification"
      [] name = "PreCompact" -> "pre_compact"
OfficialNames == HookEventNames \ {"pretooluse", "Other"}
HasLineBreak(text) == \E i \in 1..Len(text) : text[i] \in {NL, 13}
SingleLine(line) == ~HasLineBreak(line.sessionId) /\ ~HasLineBreak(line.cwd)
IsJson(stdinContent) == stdinContent.kind \in {"object", "null"}
HookRan == hook'.runs = hook.runs + 1
LinesBegun(r) == (Delivered(r) + 1) \div 2
C27_EntriesAreStreamLines ==
    \A r \in Objects :
        LET kept == Min(LinesBegun(r), MAX_OUTPUT_BUFFER_LINES)
        IN  recs[r].outputBuffer =
                [i \in 1..kept |-> <<LineChar(LinesBegun(r) - kept + i)>>]

\* C28: every buffer entry that comes from stderr starts with the stderr tag, each
\* line of a stderr chunk of several lines included; the entries that come from
\* stdout are the lines as the process wrote them, with nothing put in front; and a
\* stderr chunk produces no output notification.
Tagged(entry) ==
    /\ Len(entry) >= Len(STDERR_TAG)
    /\ SubSeq(entry, 1, Len(STDERR_TAG)) = STDERR_TAG
EntriesAdded(r) == SubSeq(hist'[r], Len(hist[r]) + 1, Len(hist'[r]))
C28_StderrEntriesTagged ==
    [][\A r \in Objects, k \in ChunkLines :
        LET text == ChunkText(Written(r) + 1, k)
        IN  /\ StderrData(r, text) =>
                /\ Len(EntriesAdded(r)) = k
                /\ \A i \in 1..k : Tagged(EntriesAdded(r)[i])
                /\ \A i \in 1..Len(StderrEmits(r, text)) :
                       StderrEmits(r, text)[i].type # "output"
            /\ StdoutData(r, text) =>
                EntriesAdded(r) = [i \in 1..k |-> <<LineChar(Written(r) + i)>>]]_vars

\* C29: for every combination of the three launch flags, each unset, true or false,
\* the process is spawned with these arguments in this order and no others: -c
\* unless continue is false; --permission-mode=bypassPermissions and
\* --dangerously-skip-permissions unless skipPermissions is false; --chrome only when
\* chrome is true.
OnlyIf(cond, arguments) == IF cond THEN arguments ELSE <<>>
ExpectedArgs(flags) ==
    OnlyIf(flags.continue \in {Unset, "true"}, <<"-c">>)
    \o OnlyIf(flags.skipPermissions \in {Unset, "true"},
              <<"--permission-mode=bypassPermissions", "--dangerously-skip-permissions">>)
    \o OnlyIf(flags.chrome \notin {Unset, "false"}, <<"--chrome">>)
C29_ArgsFromFlags ==
    [][\A flags \in AllFlags, o \in LaunchOutcomes \ {"notfound", "spawnthrow"} :
        CreateSession(OptionsWith(flags), o) =>
            recs'[Len(recs')].process.args = ExpectedArgs(flags)]_vars
\* one process was spawned with --chrome alone and one with -c and the two permission
\* arguments
C29_Witness ==
    /\ \E r \in Objects : recs[r].process.args = <<"--chrome">>
    /\ \E r \in Objects :
           recs[r].process.args =
               <<"-c", "--permission-mode=bypassPermissions", "--dangerously-skip-permissions">>

\* C30: a checkHealth pass changes nothing but status fields: the registry has the
\* entries it had, every record keeps its buffer, timestamps, name, link and process
\* handle, and each statusChange of the pass is for a registered session whose status
\* the pass changed, and carries the new status.
OnlyStatusDiffers(before, after) == [after EXCEPT !.status = before.status] = before
C30_HealthChangesStatusOnly ==
    [][CheckHealth =>
        /\ sessions' = sessions
        /\ Len(recs') = Len(recs)
        /\ \A r \in Objects : OnlyStatusDiffers(recs[r], recs'[r])
        /\ \A r \in Objects : ~Registered(r) => recs'[r] = recs[r]
        /\ \A i \in 1..Len(HealthEmits(sessions)) :
               LET e == HealthEmits(sessions)[i]
               IN  /\ e.type = "statusChange"
                   /\ \E r \in Objects :
                          /\ Registered(r) /\ recs[r].id = e.id
                          /\ recs'[r].status # recs[r].status
                          /\ recs'[r].status = e.status]_vars
\* a pass is about to change the status of a session that has output, a link and a
\* later lastActivity than createdAt, beside a session it leaves alone
C30_Witness ==
    \E r, q \in Objects :
        /\ Registered(r) /\ Registered(q)
        /\ HealthRecs[r].status # recs[r].status
        /\ HealthRecs[q] = recs[q]
        /\ recs[r].outputBuffer # <<>>
        /\ recs[r].claudeSessionId # NULL
        /\ recs[r].lastActivity > recs[r].createdAt

\* C31: every Map entry is keyed by the id stored in its record, no record is
\* registered under two keys and no two registered records carry the same id, in
\* every state a caller can observe across create, kill, restart and cleanup.
KeyedById == \A i \in 1..Len(sessions) : recs[sessions[i].ref].id = sessions[i].key
OneKeyPerRecord ==
    \A i, j \in 1..Len(sessions) : sessions[i].ref = sessions[j].ref => i = j
OneRecordPerId ==
    \A i, j \in 1..Len(sessions) :
        recs[sessions[i].ref].id = recs[sessions[j].ref].id => i = j
C31_KeyedByRecordId == KeyedById /\ OneKeyPerRecord /\ OneRecordPerId

\* a restarted record is registered under the id it took over, beside an object that
\* kill or cleanup removed
C31_Witness ==
    /\ \E r \in Objects : Registered(r) /\ recs[r].id # ClosureId(r)
    /\ \E r \in Objects : ~Registered(r)
    /\ NoMicrotask

\* C32: when the createSession inside restart(id) fails because the executable is not
\* found, the registry is as it was before restart was called: the original record
\* is registered under id.
C32_FailedRestartKeepsRecord ==
    [][RestartCreate("notfound") =>
        LET f == Head(microtasks)
        IN  /\ MapHas(sessions', f.id)
            /\ MapGet(sessions', f.id) = f.existing]_vars

\* C33: a notification that carries the id X comes from the process registered under
\* X when it is emitted: whenever an event of a process can be delivered, each
\* notification its handlers would emit names a key of the Map whose record holds
\* that process (so none comes from a process that kill removed or restart replaced).
FromRegistered(emits, r) ==
    \A i \in 1..Len(emits) :
        MapHas(sessions, emits[i].id) /\ MapGet(sessions, emits[i].id) = r
C33_EmitterIsRegistered ==
    EventsEnabled =>
        \A r \in Objects :
            /\ recs[r].process.alive =>
                   /\ \A code \in ExitCodes : FromRegistered(ExitHandlerEmits(r, code), r)
                   /\ \A text \in Texts : FromRegistered(StdoutEmits(r, text), r)
            /\ recs[r].process.pendingError => FromRegistered(ErrorHandlerEmits(r), r)

\* C34: a subscriber that takes a session's status from the notifications (idle when
\* the session is created or restarted, then the status of the latest statusChange
\* for its id) agrees with getSession(id).status after every operation and event:
\* if it agrees in this state, it agrees after each step that can follow, where the
\* step leaves the objects post and emits emits.
TrackedAfter(emits, id) ==
    LET changes == StatusChangesFor(emits, id)
    IN  IF changes = <<>> THEN RecordOf(id).status ELSE changes[Len(changes)].status
StillAgrees(post, emits) ==
    \A id \in Keys : post[MapGet(sessions, id)].status = TrackedAfter(emits, id)
C34_SubscriberAgrees ==
    /\ \A id \in Ids, status \in Statuses :
           StillAgrees(UpdateStatusRecs(id, status), UpdateStatusEmits(id, status))
    /\ StillAgrees(HealthRecs, HealthEmits(sessions))
    /\ EventsEnabled =>
           \A r \in Objects :
               /\ recs[r].process.alive =>
                      \A code \in ExitCodes :
                          StillAgrees(ExitHandlerRecs(r), ExitHandlerEmits(r, code))
               /\ recs[r].process.pendingError =>
                      StillAgrees(ErrorHandlerRecs(r), ErrorHandlerEmits(r))
    /\ \A id \in Keys :
           /\ \A o \in InterruptOutcomes(id) :
                  StillAgrees(InterruptRecs(id, o), InterruptEmits(id, o))
           /\ \A o \in KillOutcomes(id) :
                  \A other \in MapKeys(KillSessions(id, o)) :
                      KillRecs(id, o)[MapGet(sessions, other)].status =
                          TrackedAfter(KillEmits(id, o), other)
    /\ RestartAt("rename") =>
           RenameRecs(Head(microtasks).session, Head(microtasks).id)
               [Head(microtasks).session].status = "idle"

\* C35: restart(id) is atomic for the other operations: while a restart is suspended
\* at one of its awaits, where other operations run, id is in the Map, a replacement
\* record that exists is the one registered under id, and a replacement that another
\* operation removed from the Map in the meantime is not put back when restart
\* resumes.
C35_RestartAtomic ==
    \A i \in 1..Len(microtasks) :
        LET f == microtasks[i]
        IN  f.kind = "restart" =>
                /\ MapHas(sessions, f.id)
                /\ f.pc = "rename" =>
                       /\ Registered(f.session) => MapGet(sessions, f.id) = f.session
                       /\ (i = 1 /\ ~Registered(f.session)) =>
                              \A j \in 1..Len(RenameSessions(sessions, f.session, f.id)) :
                                  RenameSessions(sessions, f.session, f.id)[j].ref
                                      # f.session

\* C36: no spawned process is orphaned: a step that takes the record of a process
\* that has not exited out of the Map has delivered a termination request to that
\* process or finds one delivered earlier (or finds the process gone, esrch); the
\* steps are kill, also inside restart and cleanup, and the set of line 333 that puts
\* restart's replacement in the place of a record still registered under id.
Requested(r) == recs[r].process.killed
Delivers(o) == o \in {"sent", "done", "esrch"}
C36_NoOrphan ==
    /\ \A id \in Keys : \A o \in KillOutcomes(id) :
           LET r == MapGet(sessions, id)
           IN  (KillDeletes(o) /\ recs[r].process.alive) => (Delivers(o) \/ Requested(r))
    /\ RestartAt("rename") =>
           LET f == Head(microtasks)
           IN  \A r \in Objects :
                   (/\ Registered(r) /\ r # f.session
                    /\ MapHas(sessions, f.id) /\ MapGet(sessions, f.id) = r
                    /\ recs[r].process.alive) => Requested(r)

\* C37: checkHealth is idempotent: in the state a pass leaves, a second pass right
\* after it would change no status and emit no notification.
C37_HealthIdempotent ==
    [][CheckHealth => (HealthRecs' = recs' /\ HealthEmits(sessions)' = <<>>)]_vars
\* a pass is about to mark one session offline and to bring another back to idle
C37_Witness ==
    \E r, q \in Objects :
        /\ Registered(r) /\ Registered(q)
        /\ recs[r].status # "offline" /\ HealthRecs[r].status = "offline"
        /\ recs[q].status = "offline" /\ HealthRecs[q].status = "idle"

\* C38: no buffer entry contains a line feed, and for a registered session with a
\* non-empty buffer, splitting getOutput(id) at the line feeds gives back the entries
\* of the buffer in their order.
NoLineFeed(entry) == \A i \in 1..Len(entry) : entry[i] # NL
C38_OutputSplitsBack ==
    /\ \A r \in Objects : \A i \in 1..Len(recs[r].outputBuffer) :
           NoLineFeed(recs[r].outputBuffer[i])
    /\ \A id \in Keys :
           RecordOf(id).outputBuffer # <<>> =>
               Split(getOutput(id, NULL)) = RecordOf(id).outputBuffer
\* a full buffer that ends with the empty entry of a chunk's final line feed
C38_Witness ==
    \E id \in Keys :
        /\ Len(RecordOf(id).outputBuffer) = MAX_OUTPUT_BUFFER_LINES
        /\ RecordOf(id).outputBuffer[MAX_OUTPUT_BUFFER_LINES] = <<>>
        /\ RecordOf(id).outputBuffer[1] # <<>>

\* C39: sendInput and interrupt change at most the lastActivity of the record they
\* address: the status, outputBuffer, name, cwd, createdAt, id and link of every
\* record are what they were, no notification is emitted, and a call that returns
\* false leaves every record exactly as it was.  (Neither touches the Map.)
SameButActivity(before, after) ==
    [after EXCEPT !.lastActivity = before.lastActivity, !.process = before.process]
        = before
OnlyActivityOf(post, id) ==
    \A r \in Objects :
        IF MapHas(sessions, id) /\ MapGet(sessions, id) = r
        THEN SameButActivity(recs[r], post[r])
        ELSE post[r] = recs[r]
C39_InputAndInterruptFrame ==
    \A id \in Ids :
        /\ \A o \in SendInputOutcomes(id) :
               /\ OnlyActivityOf(SendInputRecs(id, o), id)
               /\ sendInputReturns(id, o) = "false" => SendInputRecs(id, o) = recs
        /\ \A o \in InterruptOutcomes(id) :
               /\ OnlyActivityOf(InterruptRecs(id, o), id)
               /\ InterruptEmits(id, o) = <<>>
               /\ interruptReturns(id, o) = "false" => InterruptRecs(id, o) = recs

\* C40: cleanup() makes at most one kill attempt for each session, whether the
\* session was registered when cleanup started or was added while it runs and
\* whether or not a kill failed: the entry a suspended cleanup turns to next is not
\* the record of a session this cleanup has called kill for already.
C40_CleanupKillsOnce ==
    \A i \in 1..Len(microtasks) :
        LET f == microtasks[i]
        IN  (f.kind = "cleanup" /\ f.pos < Len(sessions)) =>
                sessions[f.pos + 1].ref \notin f.attempted

====
